---- MODULE Spec2Model ----
(***************************************************************************)
(* Trinity Protocol validator (contracts/solana/trinity_validator.rs).     *)
(*                                                                         *)
(* The ledger is the set of program-derived accounts of the program: the   *)
(* validator singleton (seed "trinity_validator"), one ProofRecord per     *)
(* operation id (seeds "proof", operation_id) and one VaultVerification    *)
(* per vault id (seeds "verification", vault_id), plus the log of emitted  *)
(* events.  Every instruction is one transaction: Anchor validates the     *)
(* accounts struct (creating the `init` accounts), runs the handler,       *)
(* serializes the accounts back on exit, and the runtime keeps the         *)
(* changes only when all three returned Ok.                                *)
(*                                                                         *)
(* 32-byte values ([u8; 32], Pubkey) are modelled as naturals; the         *)
(* unsigned lexicographic order of the byte arrays is the order of the     *)
(* naturals.  A String is modelled by an identity and its byte length.     *)
(***************************************************************************)
EXTENDS Integers, Sequences, FiniteSets, TLC

\* ---------------------------------------------------------------- bounds
\* size of the modelled hash space (keccak output is 0 .. HashSpace-1)
HashSpace == 13
\* the clock runs from 0 to MaxClock
MaxClock == 1
\* the sibling paths of the path specification have 0 to MaxPathLen elements
MaxPathLen == 2
\* tokens the depositor holds when the vesting program is deployed
DepositorFunds == 3

\* ------------------------------------------------------ program constants
\* #[max_len(10)] on ProofRecord.merkle_proof
MAX_PROOF_LEN == 10
\* #[max_len(200)] on TrinityValidator.arbitrum_rpc_url
MAX_RPC_LEN == 200
\* bump of the validator PDA, as found by the seed derivation
ValidatorBump == 255
\* address of the validator PDA (validator.key())
ValidatorKey == 9
\* seed of the validator singleton
ValidatorSeed == 0

\* ------------------------------------------------------------- inputs
Signers == {1, 2}
OperationIds == {1, 2}
VaultIds == {1}
BridgeAddresses == {1, 2}
EthereumAddresses == {1}
BlockHashes == {5}
TxSignatures == {6}
BlockNumbers == {7}
EthereumTxHashes == {0, 3}
Amounts == {10}
Users == {1}

\* enum OperationType, with the discriminant `operation_type as u8` takes
OperationType == [VaultWithdrawal |-> 0, HTLCSwap |-> 1,
                  EmergencyRecovery |-> 2, CrossChainTransfer |-> 3]
OperationTypes == {"VaultWithdrawal", "EmergencyRecovery"}

\* a String: who it is and how many bytes it has
RpcUrl(id, len) == [id |-> id, len |-> len]
RpcUrls == {RpcUrl(1, MAX_RPC_LEN), RpcUrl(2, MAX_RPC_LEN + 1)}

\* a sibling path of n elements
PathOfLen(n) == [i \in 1..n |-> (i * 2) % 5]
MerkleProofs == {PathOfLen(MAX_PROOF_LEN), PathOfLen(MAX_PROOF_LEN + 1)}

\* sibling paths that fit the record, the empty one included; with the operation ids
\* as leaves a sibling is below, equal to or above the running hash
Siblings == {0, 2}
ShortPaths == UNION {[1..n -> Siblings] : n \in 0..MaxPathLen}

\* the 32-byte values, and every sibling path over them up to MaxPathLen elements
Hashes == 0..(HashSpace - 1)
HashPaths == UNION {[1..n -> Hashes] : n \in 0..MaxPathLen}

\* Option<T>
None == [some |-> FALSE]
Some(x) == [some |-> TRUE, val |-> x]
Option(S) == {None} \cup {Some(x) : x \in S}

\* inputs of the vesting program: one beneficiary (one of the signers), amounts
\* and unlock times around the bounds the handlers test
Beneficiaries == {2}
TokenAmounts == {1, 2}
TotalAmounts == {0, 2}
UnlockTimestamps == {0, 1}
\* the mint of the vested token, and the bump of the vesting PDA
CvtMint == 8
VestingBump == 254

\* ------------------------------------------------------------- errors
\* TrinityError
ValidatorNotActive == "ValidatorNotActive"
AlreadySubmitted == "AlreadySubmitted"
OperationNotFound == "OperationNotFound"
\* what the accounts constraints and the exit fail with
AccountAlreadyInUse == "AccountAlreadyInUse"
AccountNotInitialized == "AccountNotInitialized"
ConstraintHasOne == "ConstraintHasOne"
AccountDidNotSerialize == "AccountDidNotSerialize"
ConstraintSeeds == "ConstraintSeeds"
\* VestingError
InvalidUnlockTime == "InvalidUnlockTime"
InvalidAmount == "InvalidAmount"
StillLocked == "StillLocked"
VestingUnauthorized == "VestingError::Unauthorized"
InsufficientBalance == "InsufficientBalance"
ExceedsVestingAmount == "ExceedsVestingAmount"
\* spl-token: the source account holds less than the amount
TokenInsufficientFunds == "TokenInsufficientFunds"

\* the names the design gives to the failures of `init` and `has_one`
DuplicateRecord == AccountAlreadyInUse
AlreadyInitialized == AccountAlreadyInUse
Unauthorized == ConstraintHasOne

\* ledger: the accounts of the program and the event log; clock: the cluster's
\* unix time; last: what the caller of the latest transaction saw; merkle: the
\* latest call of calculate_merkle_root on its own, with what it returned;
\* vesting: the accounts of the vesting program and the token accounts it moves
\* tokens between
VARIABLES ledger, clock, last, merkle, vesting

vars == <<ledger, clock, last, merkle, vesting>>

validator == ledger.validator
proof_records == ledger.proof_records
verifications == ledger.verifications
events == ledger.events

\* ------------------------------------------------------------- helpers
NoAccounts == [k \in {} |-> 0]
Put(accounts, key, data) ==
    [k \in (DOMAIN accounts) \cup {key} |-> IF k = key THEN data ELSE accounts[k]]

Ok(st) == [err |-> "Ok", st |-> st]
Err(e, st) == [err |-> e, st |-> st]

\* keccak::hashv over a list of byte strings
RECURSIVE hashv(_)
hashv(vals) ==
    IF vals = <<>> THEN 1
    ELSE (hashv(SubSeq(vals, 1, Len(vals) - 1)) * 7 + vals[Len(vals)] + 3) % HashSpace

\* the path walked from its last element to its first
RECURSIVE calculate_merkle_root_reversed(_, _)
calculate_merkle_root_reversed(proof, leaf) ==
    IF proof = <<>> THEN leaf
    ELSE LET current_hash == calculate_merkle_root_reversed(Tail(proof), leaf)
             proof_element == Head(proof)
         IN IF current_hash < proof_element
            THEN hashv(<<current_hash, proof_element>>)
            ELSE hashv(<<proof_element, current_hash>>)

\* the leaf hashed once more when the path is empty
RECURSIVE calculate_merkle_root_hash_leaf(_, _)
calculate_merkle_root_hash_leaf(proof, leaf) ==
    IF proof = <<>> THEN hashv(<<leaf>>)
    ELSE LET current_hash ==
                 calculate_merkle_root_hash_leaf(SubSeq(proof, 1, Len(proof) - 1), leaf)
             proof_element == proof[Len(proof)]
         IN IF current_hash < proof_element
            THEN hashv(<<current_hash, proof_element>>)
            ELSE hashv(<<proof_element, current_hash>>)

\* the running hash always first, whichever operand is smaller
RECURSIVE calculate_merkle_root_unordered(_, _)
calculate_merkle_root_unordered(proof, leaf) ==
    IF proof = <<>> THEN leaf
    ELSE hashv(<<calculate_merkle_root_unordered(SubSeq(proof, 1, Len(proof) - 1), leaf),
                 proof[Len(proof)]>>)

\* fn calculate_merkle_root(proof, leaf)
RECURSIVE calculate_merkle_root(_, _)
calculate_merkle_root(proof, leaf) ==
    IF proof = <<>> THEN leaf
    ELSE LET current_hash == calculate_merkle_root(SubSeq(proof, 1, Len(proof) - 1), leaf)
             proof_element == proof[Len(proof)]
         IN IF current_hash < proof_element
            THEN hashv(<<current_hash, proof_element>>)
            ELSE hashv(<<proof_element, current_hash>>)

\* account data right after `init`: zeroed
ZeroValidator ==
    [authority |-> 0, ethereum_bridge_address |-> 0, validator_ethereum_address |-> 0,
     arbitrum_rpc_url |-> RpcUrl(0, 0), total_proofs_submitted |-> 0,
     last_processed_operation |-> 0, is_active |-> FALSE, bump |-> 0]
ZeroProofRecord ==
    [operation_id |-> 0, merkle_root |-> 0, merkle_proof |-> <<>>,
     solana_block_hash |-> 0, solana_tx_signature |-> 0, solana_block_number |-> 0,
     timestamp |-> 0, submitted_to_ethereum |-> FALSE, ethereum_tx_hash |-> 0,
     validator |-> 0]
ZeroVaultVerification ==
    [vault_id |-> 0, operation_type |-> "VaultWithdrawal", amount |-> 0, user |-> 0,
     verification_hash |-> 0, timestamp |-> 0, validator |-> 0]

\* events
ProofGenerated(operation_id, merkle_root, solana_block_hash, solana_block_number, timestamp) ==
    [event |-> "ProofGenerated", operation_id |-> operation_id, merkle_root |-> merkle_root,
     solana_block_hash |-> solana_block_hash, solana_block_number |-> solana_block_number,
     timestamp |-> timestamp]
OperationVerified(vault_id, operation_type, amount, user, verification_hash) ==
    [event |-> "OperationVerified", vault_id |-> vault_id, operation_type |-> operation_type,
     amount |-> amount, user |-> user, verification_hash |-> verification_hash]

\* ------------------------------------------------- accounts constraints
\* `init_if_needed` in place of `init`: an existing validator is taken as it is
InitializeAccounts_init_if_needed(st) ==
    IF ValidatorSeed \in DOMAIN st.validator
    THEN Ok(st)
    ELSE Ok([st EXCEPT !.validator = Put(@, ValidatorSeed, ZeroValidator)])

\* #[derive(Accounts)] Initialize: validator is `init`
InitializeAccounts(st) ==
    IF ValidatorSeed \in DOMAIN st.validator
    THEN Err(AccountAlreadyInUse, st)
    ELSE Ok([st EXCEPT !.validator = Put(@, ValidatorSeed, ZeroValidator)])

\* seeds = [b"proof"] without the operation id: one address for every record
SubmitProofAccounts_shared_seed(st, operation_id) ==
    IF ValidatorSeed \notin DOMAIN st.validator
    THEN Err(AccountNotInitialized, st)
    ELSE IF DOMAIN st.proof_records # {}
    THEN Err(AccountAlreadyInUse, st)
    ELSE Ok([st EXCEPT !.proof_records = Put(@, operation_id, ZeroProofRecord)])

\* `init_if_needed` in place of `init`: an existing record is taken as it is
SubmitProofAccounts_init_if_needed(st, operation_id) ==
    IF ValidatorSeed \notin DOMAIN st.validator
    THEN Err(AccountNotInitialized, st)
    ELSE IF operation_id \in DOMAIN st.proof_records
    THEN Ok(st)
    ELSE Ok([st EXCEPT !.proof_records = Put(@, operation_id, ZeroProofRecord)])

\* #[derive(Accounts)] SubmitProof: validator exists, proof_record is `init`
SubmitProofAccounts(st, operation_id) ==
    IF ValidatorSeed \notin DOMAIN st.validator
    THEN Err(AccountNotInitialized, st)
    ELSE IF operation_id \in DOMAIN st.proof_records
    THEN Err(AccountAlreadyInUse, st)
    ELSE Ok([st EXCEPT !.proof_records = Put(@, operation_id, ZeroProofRecord)])

\* the registry among the accounts of the confirmation, and required active
ConfirmSubmissionAccounts_active_registry(st, operation_id) ==
    IF operation_id \notin DOMAIN st.proof_records
    THEN Err(AccountNotInitialized, st)
    ELSE IF ~st.validator[ValidatorSeed].is_active
    THEN Err(ValidatorNotActive, st)
    ELSE Ok(st)

\* `init_if_needed` on the record to confirm: a missing record is created
ConfirmSubmissionAccounts_init_if_needed(st, operation_id) ==
    IF operation_id \notin DOMAIN st.proof_records
    THEN Ok([st EXCEPT !.proof_records = Put(@, operation_id, ZeroProofRecord)])
    ELSE Ok(st)

\* #[derive(Accounts)] ConfirmSubmission: proof_record exists
ConfirmSubmissionAccounts(st, operation_id) ==
    IF operation_id \notin DOMAIN st.proof_records
    THEN Err(AccountNotInitialized, st)
    ELSE Ok(st)

\* `init_if_needed` in place of `init`: an existing verification is taken as it is
VerifyOperationAccounts_init_if_needed(st, vault_id) ==
    IF ValidatorSeed \notin DOMAIN st.validator
    THEN Err(AccountNotInitialized, st)
    ELSE IF vault_id \in DOMAIN st.verifications
    THEN Ok(st)
    ELSE Ok([st EXCEPT !.verifications = Put(@, vault_id, ZeroVaultVerification)])

\* #[derive(Accounts)] VerifyOperation: validator exists, verification is `init`
VerifyOperationAccounts(st, vault_id) ==
    IF ValidatorSeed \notin DOMAIN st.validator
    THEN Err(AccountNotInitialized, st)
    ELSE IF vault_id \in DOMAIN st.verifications
    THEN Err(AccountAlreadyInUse, st)
    ELSE Ok([st EXCEPT !.verifications = Put(@, vault_id, ZeroVaultVerification)])

\* without `has_one = authority`
UpdateValidatorAccounts_no_has_one(st, authority) ==
    IF ValidatorSeed \notin DOMAIN st.validator
    THEN Err(AccountNotInitialized, st)
    ELSE Ok(st)

\* #[derive(Accounts)] UpdateValidator: validator exists, has_one = authority
UpdateValidatorAccounts(st, authority) ==
    IF ValidatorSeed \notin DOMAIN st.validator
    THEN Err(AccountNotInitialized, st)
    ELSE IF st.validator[ValidatorSeed].authority # authority
    THEN Err(ConstraintHasOne, st)
    ELSE Ok(st)

\* ------------------------------------------------------------ handlers
\* pub fn initialize
initialize(st, authority, ethereum_bridge_address, validator_ethereum_address, arbitrum_rpc_url) ==
    Ok([st EXCEPT !.validator[ValidatorSeed] =
          [authority |-> authority,
           ethereum_bridge_address |-> ethereum_bridge_address,
           validator_ethereum_address |-> validator_ethereum_address,
           arbitrum_rpc_url |-> arbitrum_rpc_url,
           total_proofs_submitted |-> 0,
           last_processed_operation |-> 0,
           is_active |-> TRUE,
           bump |-> ValidatorBump]])

\* without emit!(ProofGenerated { .. })
submit_consensus_proof_silent(st, operation_id, merkle_proof, solana_block_hash, solana_tx_signature, solana_block_number, now) ==
    IF ~st.validator[ValidatorSeed].is_active
    THEN Err(ValidatorNotActive, st)
    ELSE LET merkle_root == calculate_merkle_root(merkle_proof, operation_id)
         IN Ok([st EXCEPT
                  !.proof_records[operation_id] =
                      [@ EXCEPT !.operation_id = operation_id,
                                !.merkle_root = merkle_root,
                                !.merkle_proof = merkle_proof,
                                !.solana_block_hash = solana_block_hash,
                                !.solana_tx_signature = solana_tx_signature,
                                !.solana_block_number = solana_block_number,
                                !.timestamp = now,
                                !.submitted_to_ethereum = FALSE,
                                !.validator = ValidatorKey],
                  !.validator[ValidatorSeed].total_proofs_submitted = @ + 1])

\* last_processed_operation set to the operation submitted
submit_consensus_proof_marks_processed(st, operation_id, merkle_proof, solana_block_hash, solana_tx_signature, solana_block_number, now) ==
    IF ~st.validator[ValidatorSeed].is_active
    THEN Err(ValidatorNotActive, st)
    ELSE LET merkle_root == calculate_merkle_root(merkle_proof, operation_id)
         IN Ok([st EXCEPT
                  !.proof_records[operation_id] =
                      [@ EXCEPT !.operation_id = operation_id,
                                !.merkle_root = merkle_root,
                                !.merkle_proof = merkle_proof,
                                !.solana_block_hash = solana_block_hash,
                                !.solana_tx_signature = solana_tx_signature,
                                !.solana_block_number = solana_block_number,
                                !.timestamp = now,
                                !.submitted_to_ethereum = FALSE,
                                !.validator = ValidatorKey],
                  !.validator[ValidatorSeed].total_proofs_submitted = @ + 1,
                  !.validator[ValidatorSeed].last_processed_operation = operation_id,
                  !.events = Append(@, ProofGenerated(operation_id, merkle_root,
                                        solana_block_hash, solana_block_number, now))])

\* without require!(validator.is_active, ..)
submit_consensus_proof_no_active_check(st, operation_id, merkle_proof, solana_block_hash, solana_tx_signature, solana_block_number, now) ==
    LET merkle_root == calculate_merkle_root(merkle_proof, operation_id)
    IN Ok([st EXCEPT
             !.proof_records[operation_id] =
                 [@ EXCEPT !.operation_id = operation_id,
                           !.merkle_root = merkle_root,
                           !.merkle_proof = merkle_proof,
                           !.solana_block_hash = solana_block_hash,
                           !.solana_tx_signature = solana_tx_signature,
                           !.solana_block_number = solana_block_number,
                           !.timestamp = now,
                           !.submitted_to_ethereum = FALSE,
                           !.validator = ValidatorKey],
             !.validator[ValidatorSeed].total_proofs_submitted = @ + 1,
             !.events = Append(@, ProofGenerated(operation_id, merkle_root,
                                   solana_block_hash, solana_block_number, now))])

\* pub fn submit_consensus_proof
submit_consensus_proof(st, operation_id, merkle_proof, solana_block_hash, solana_tx_signature, solana_block_number, now) ==
    IF ~st.validator[ValidatorSeed].is_active
    THEN Err(ValidatorNotActive, st)
    ELSE LET merkle_root == calculate_merkle_root(merkle_proof, operation_id)
         IN Ok([st EXCEPT
                  !.proof_records[operation_id] =
                      [@ EXCEPT !.operation_id = operation_id,
                                !.merkle_root = merkle_root,
                                !.merkle_proof = merkle_proof,
                                !.solana_block_hash = solana_block_hash,
                                !.solana_tx_signature = solana_tx_signature,
                                !.solana_block_number = solana_block_number,
                                !.timestamp = now,
                                !.submitted_to_ethereum = FALSE,
                                !.validator = ValidatorKey],
                  !.validator[ValidatorSeed].total_proofs_submitted = @ + 1,
                  !.events = Append(@, ProofGenerated(operation_id, merkle_root,
                                        solana_block_hash, solana_block_number, now))])

\* the record's validator overwritten by the confirmation
confirm_ethereum_submission_takes_over(st, operation_id, ethereum_tx_hash) ==
    IF st.proof_records[operation_id].submitted_to_ethereum
    THEN Err(AlreadySubmitted, st)
    ELSE Ok([st EXCEPT
               !.proof_records[operation_id].submitted_to_ethereum = TRUE,
               !.proof_records[operation_id].ethereum_tx_hash = ethereum_tx_hash,
               !.proof_records[operation_id].validator = 0])

\* without require!(!proof_record.submitted_to_ethereum, ..)
confirm_ethereum_submission_no_require(st, operation_id, ethereum_tx_hash) ==
    Ok([st EXCEPT
          !.proof_records[operation_id].submitted_to_ethereum = TRUE,
          !.proof_records[operation_id].ethereum_tx_hash = ethereum_tx_hash])

\* the flag flipped instead of set
confirm_ethereum_submission_toggle(st, operation_id, ethereum_tx_hash) ==
    Ok([st EXCEPT
          !.proof_records[operation_id].submitted_to_ethereum = ~@,
          !.proof_records[operation_id].ethereum_tx_hash = ethereum_tx_hash])

\* pub fn confirm_ethereum_submission
confirm_ethereum_submission(st, operation_id, ethereum_tx_hash) ==
    IF st.proof_records[operation_id].submitted_to_ethereum
    THEN Err(AlreadySubmitted, st)
    ELSE Ok([st EXCEPT
               !.proof_records[operation_id].submitted_to_ethereum = TRUE,
               !.proof_records[operation_id].ethereum_tx_hash = ethereum_tx_hash])

\* with the require!(validator.is_active, ..) of submit_consensus_proof
verify_vault_operation_require_active(st, vault_id, operation_type, amount, user, now) ==
    IF ~st.validator[ValidatorSeed].is_active
    THEN Err(ValidatorNotActive, st)
    ELSE LET verification_hash ==
                 hashv(<<vault_id, OperationType[operation_type], amount, user, now>>)
         IN Ok([st EXCEPT
                  !.verifications[vault_id] =
                      [vault_id |-> vault_id,
                       operation_type |-> operation_type,
                       amount |-> amount,
                       user |-> user,
                       verification_hash |-> verification_hash,
                       timestamp |-> now,
                       validator |-> ValidatorKey],
                  !.events = Append(@, OperationVerified(vault_id, operation_type, amount,
                                                         user, verification_hash))])

\* pub fn verify_vault_operation
verify_vault_operation(st, vault_id, operation_type, amount, user, now) ==
    LET verification_hash ==
            hashv(<<vault_id, OperationType[operation_type], amount, user, now>>)
    IN Ok([st EXCEPT
             !.verifications[vault_id] =
                 [vault_id |-> vault_id,
                  operation_type |-> operation_type,
                  amount |-> amount,
                  user |-> user,
                  verification_hash |-> verification_hash,
                  timestamp |-> now,
                  validator |-> ValidatorKey],
             !.events = Append(@, OperationVerified(vault_id, operation_type, amount,
                                                    user, verification_hash))])

\* an absent is_active taken as false
update_validator_absent_clears(st, new_arbitrum_rpc, new_ethereum_bridge, is_active) ==
    LET v0 == st.validator[ValidatorSeed]
        v1 == IF new_arbitrum_rpc.some
              THEN [v0 EXCEPT !.arbitrum_rpc_url = new_arbitrum_rpc.val] ELSE v0
        v2 == IF new_ethereum_bridge.some
              THEN [v1 EXCEPT !.ethereum_bridge_address = new_ethereum_bridge.val] ELSE v1
        v3 == [v2 EXCEPT !.is_active = is_active.some /\ is_active.val]
    IN Ok([st EXCEPT !.validator[ValidatorSeed] = v3])

\* pub fn update_validator
update_validator(st, new_arbitrum_rpc, new_ethereum_bridge, is_active) ==
    LET v0 == st.validator[ValidatorSeed]
        v1 == IF new_arbitrum_rpc.some
              THEN [v0 EXCEPT !.arbitrum_rpc_url = new_arbitrum_rpc.val] ELSE v0
        v2 == IF new_ethereum_bridge.some
              THEN [v1 EXCEPT !.ethereum_bridge_address = new_ethereum_bridge.val] ELSE v1
        v3 == IF is_active.some
              THEN [v2 EXCEPT !.is_active = is_active.val] ELSE v2
    IN Ok([st EXCEPT !.validator[ValidatorSeed] = v3])

\* ------------------------------------------------------------- exit
\* the validator account is written back into 8 + INIT_SPACE bytes
ValidatorExit(st) ==
    IF st.validator[ValidatorSeed].arbitrum_rpc_url.len > MAX_RPC_LEN
    THEN Err(AccountDidNotSerialize, st)
    ELSE Ok(st)

\* an account with room for a path of any length
ProofRecordExit_unbounded(st, operation_id) == Ok(st)

\* the proof record is written back into 8 + INIT_SPACE bytes
ProofRecordExit(st, operation_id) ==
    IF Len(st.proof_records[operation_id].merkle_proof) > MAX_PROOF_LEN
    THEN Err(AccountDidNotSerialize, st)
    ELSE Ok(st)

\* --------------------------------------------------------- transactions
\* accounts constraints, then the handler, then the exit
Then(r, next(_)) == IF r.err = "Ok" THEN next(r.st) ELSE r

\* what the instruction wrote is kept although it failed
Commit_partial(pre, r) == r.st

\* a failed instruction leaves the ledger as it was
Commit(pre, r) == IF r.err = "Ok" THEN r.st ELSE pre

InitializeTx(st, authority, bridge, eth, rpc) ==
    Then(Then(InitializeAccounts(st),
              LAMBDA s : initialize(s, authority, bridge, eth, rpc)),
         ValidatorExit)

SubmitProofTx(st, operation_id, merkle_proof, block_hash, tx_signature, block_number, now) ==
    Then(Then(SubmitProofAccounts(st, operation_id),
              LAMBDA s : submit_consensus_proof(s, operation_id, merkle_proof, block_hash,
                                                tx_signature, block_number, now)),
         LAMBDA s : ProofRecordExit(s, operation_id))

ConfirmSubmissionTx(st, operation_id, ethereum_tx_hash) ==
    Then(ConfirmSubmissionAccounts(st, operation_id),
         LAMBDA s : confirm_ethereum_submission(s, operation_id, ethereum_tx_hash))

VerifyOperationTx(st, vault_id, operation_type, amount, user, now) ==
    Then(VerifyOperationAccounts(st, vault_id),
         LAMBDA s : verify_vault_operation(s, vault_id, operation_type, amount, user, now))

UpdateValidatorTx(st, authority, new_rpc, new_bridge, is_active) ==
    Then(Then(UpdateValidatorAccounts(st, authority),
              LAMBDA s : update_validator(s, new_rpc, new_bridge, is_active)),
         ValidatorExit)

\* ------------------------------------------------------------- actions
\* `last` is what the caller of the latest transaction saw: the instruction, the
\* key of the record it addressed (0 for the validator singleton) and the result,
\* with the signer where the program reads the signer's key (initialize stores it,
\* has_one compares it) and 0 where the signer only pays for the transaction.
Init ==
    /\ ledger = [validator |-> NoAccounts, proof_records |-> NoAccounts,
                 verifications |-> NoAccounts, events |-> <<>>]
    /\ clock = 0
    /\ last = [op |-> "deploy", signer |-> 0, key |-> 0, err |-> "Ok"]
    /\ merkle = [called |-> FALSE, proof |-> <<>>, leaf |-> 0, root |-> 0]
    /\ vesting = [vesting_account |-> NoAccounts, vesting_token_account |-> 0,
                  depositor_token_account |-> DepositorFunds,
                  beneficiary_token_account |-> 0, emergency_account |-> 0]

Initialize(authority, bridge, eth, rpc) ==
    /\ ledger' = Commit(ledger, InitializeTx(ledger, authority, bridge, eth, rpc))
    /\ last' = [op |-> "initialize", signer |-> authority, key |-> 0,
                err |-> InitializeTx(ledger, authority, bridge, eth, rpc).err]
    /\ UNCHANGED <<clock, merkle, vesting>>

SubmitConsensusProof(authority, operation_id, merkle_proof, block_hash, tx_signature, block_number) ==
    /\ ledger' = Commit(ledger, SubmitProofTx(ledger, operation_id, merkle_proof, block_hash,
                                               tx_signature, block_number, clock))
    /\ last' = [op |-> "submit_consensus_proof", signer |-> 0, key |-> operation_id,
                err |-> SubmitProofTx(ledger, operation_id, merkle_proof, block_hash,
                                      tx_signature, block_number, clock).err]
    /\ UNCHANGED <<clock, merkle, vesting>>

ConfirmEthereumSubmission(authority, operation_id, ethereum_tx_hash) ==
    /\ ledger' = Commit(ledger, ConfirmSubmissionTx(ledger, operation_id, ethereum_tx_hash))
    /\ last' = [op |-> "confirm_ethereum_submission", signer |-> 0, key |-> operation_id,
                err |-> ConfirmSubmissionTx(ledger, operation_id, ethereum_tx_hash).err]
    /\ UNCHANGED <<clock, merkle, vesting>>

VerifyVaultOperation(authority, vault_id, operation_type, amount, user) ==
    /\ ledger' = Commit(ledger, VerifyOperationTx(ledger, vault_id, operation_type, amount,
                                                   user, clock))
    /\ last' = [op |-> "verify_vault_operation", signer |-> 0, key |-> vault_id,
                err |-> VerifyOperationTx(ledger, vault_id, operation_type, amount,
                                          user, clock).err]
    /\ UNCHANGED <<clock, merkle, vesting>>

UpdateValidator(authority, new_rpc, new_bridge, is_active) ==
    /\ ledger' = Commit(ledger, UpdateValidatorTx(ledger, authority, new_rpc, new_bridge,
                                                   is_active))
    /\ last' = [op |-> "update_validator", signer |-> authority, key |-> 0,
                err |-> UpdateValidatorTx(ledger, authority, new_rpc, new_bridge,
                                          is_active).err]
    /\ UNCHANGED <<clock, merkle, vesting>>

\* Clock::get() moves on between transactions
Tick ==
    /\ clock < MaxClock
    /\ clock' = clock + 1
    /\ UNCHANGED <<ledger, last, merkle, vesting>>

Next ==
    \/ \E authority \in Signers, bridge \in BridgeAddresses, eth \in EthereumAddresses,
          rpc \in RpcUrls :
           Initialize(authority, bridge, eth, rpc)
    \/ \E authority \in Signers, operation_id \in OperationIds,
          merkle_proof \in MerkleProofs, block_hash \in BlockHashes,
          tx_signature \in TxSignatures, block_number \in BlockNumbers :
           SubmitConsensusProof(authority, operation_id, merkle_proof, block_hash,
                                tx_signature, block_number)
    \/ \E authority \in Signers, operation_id \in OperationIds,
          ethereum_tx_hash \in EthereumTxHashes :
           ConfirmEthereumSubmission(authority, operation_id, ethereum_tx_hash)
    \/ \E authority \in Signers, vault_id \in VaultIds, operation_type \in OperationTypes,
          amount \in Amounts, user \in Users :
           VerifyVaultOperation(authority, vault_id, operation_type, amount, user)
    \/ \E authority \in Signers, new_rpc \in Option(RpcUrls),
          new_bridge \in Option(BridgeAddresses), is_active \in Option(BOOLEAN) :
           UpdateValidator(authority, new_rpc, new_bridge, is_active)
    \/ Tick

Spec == Init /\ [][Next]_vars

\* the program with one authority and sibling paths of every length up to MaxPathLen
PathNext ==
    \/ \E eth \in EthereumAddresses :
           Initialize(1, 1, eth, RpcUrl(1, MAX_RPC_LEN))
    \/ \E operation_id \in OperationIds, merkle_proof \in ShortPaths,
          block_hash \in BlockHashes, tx_signature \in TxSignatures,
          block_number \in BlockNumbers :
           SubmitConsensusProof(1, operation_id, merkle_proof, block_hash, tx_signature,
                                block_number)
    \/ \E operation_id \in OperationIds :
           ConfirmEthereumSubmission(1, operation_id, 3)
    \/ Tick

PathSpec == Init /\ [][PathNext]_vars

\* the relayer's attempt to confirm one operation, with any signer and any hash
Relay(operation_id) ==
    \E authority \in Signers, ethereum_tx_hash \in EthereumTxHashes :
        ConfirmEthereumSubmission(authority, operation_id, ethereum_tx_hash)

\* the program with a relayer that keeps retrying the confirmation of every
\* operation, while the authority switches the registry on and off
RelayNext ==
    \/ \E eth \in EthereumAddresses :
           Initialize(1, 1, eth, RpcUrl(1, MAX_RPC_LEN))
    \/ \E authority \in Signers, operation_id \in OperationIds,
          merkle_proof \in MerkleProofs, block_hash \in BlockHashes,
          tx_signature \in TxSignatures, block_number \in BlockNumbers :
           SubmitConsensusProof(authority, operation_id, merkle_proof, block_hash,
                                tx_signature, block_number)
    \/ \E operation_id \in OperationIds : Relay(operation_id)
    \/ \E authority \in Signers, is_active \in Option(BOOLEAN) :
           UpdateValidator(authority, None, None, is_active)
    \/ Tick

RelaySpec ==
    /\ Init
    /\ [][RelayNext]_vars
    /\ \A operation_id \in OperationIds : WF_vars(Relay(operation_id))

\* ------------------------------------------------------ vesting program
\* account data right after `init`: zeroed
ZeroVestingAccount ==
    [beneficiary |-> 0, mint |-> 0, unlock_timestamp |-> 0, total_amount |-> 0,
     withdrawn_amount |-> 0, is_initialized |-> FALSE, authority |-> 0, bump |-> 0]

\* token::transfer between two token accounts
token_transfer(st, from, to, amount) ==
    IF st[from] < amount
    THEN Err(TokenInsufficientFunds, st)
    ELSE Ok([st EXCEPT ![from] = @ - amount, ![to] = @ + amount])

\* #[derive(Accounts)] CreateVestingSchedule: vesting_account is `init` at the PDA of
\* the beneficiary and the mint
CreateVestingScheduleAccounts(st, beneficiary) ==
    IF beneficiary \in DOMAIN st.vesting_account
    THEN Err(AccountAlreadyInUse, st)
    ELSE Ok([st EXCEPT !.vesting_account = Put(@, beneficiary, ZeroVestingAccount)])

\* #[derive(Accounts)] DepositTokens: vesting_account exists
DepositTokensAccounts(st, key) ==
    IF key \notin DOMAIN st.vesting_account
    THEN Err(AccountNotInitialized, st)
    ELSE Ok(st)

\* #[derive(Accounts)] WithdrawTokens: vesting_account exists, at the PDA of the
\* signing beneficiary and the mint
WithdrawTokensAccounts(st, beneficiary, key) ==
    IF key \notin DOMAIN st.vesting_account
    THEN Err(AccountNotInitialized, st)
    ELSE IF beneficiary # key
    THEN Err(ConstraintSeeds, st)
    ELSE Ok(st)

\* #[derive(Accounts)] EmergencyWithdraw: vesting_account exists
EmergencyWithdrawAccounts(st, key) ==
    IF key \notin DOMAIN st.vesting_account
    THEN Err(AccountNotInitialized, st)
    ELSE Ok(st)

\* pub fn create_vesting_schedule
create_vesting_schedule(st, beneficiary, authority, unlock_timestamp, total_amount, now) ==
    IF ~(unlock_timestamp > now)
    THEN Err(InvalidUnlockTime, st)
    ELSE IF ~(total_amount > 0)
    THEN Err(InvalidAmount, st)
    ELSE Ok([st EXCEPT !.vesting_account[beneficiary] =
               [beneficiary |-> beneficiary,
                mint |-> CvtMint,
                unlock_timestamp |-> unlock_timestamp,
                total_amount |-> total_amount,
                withdrawn_amount |-> 0,
                is_initialized |-> TRUE,
                authority |-> authority,
                bump |-> VestingBump]])

\* pub fn deposit_tokens
deposit_tokens(st, key, amount) ==
    LET total_deposited == st.vesting_token_account
    IN IF ~(total_deposited + amount <= st.vesting_account[key].total_amount)
       THEN Err(ExceedsVestingAmount, st)
       ELSE token_transfer(st, "depositor_token_account", "vesting_token_account", amount)

\* pub fn withdraw_tokens
withdraw_tokens(st, beneficiary, key, amount, now) ==
    LET vesting_account == st.vesting_account[key]
        available == vesting_account.total_amount - vesting_account.withdrawn_amount
    IN IF ~(now >= vesting_account.unlock_timestamp)
       THEN Err(StillLocked, st)
       ELSE IF ~(beneficiary = vesting_account.beneficiary)
       THEN Err(VestingUnauthorized, st)
       ELSE IF ~(amount <= available)
       THEN Err(InsufficientBalance, st)
       ELSE Then(token_transfer(st, "vesting_token_account", "beneficiary_token_account",
                                amount),
                 LAMBDA s : Ok([s EXCEPT !.vesting_account[key].withdrawn_amount =
                                            @ + amount]))

\* the time-lock of withdraw_tokens in emergency_withdraw too
emergency_withdraw_time_locked(st, authority, key, amount, now) ==
    IF ~(now >= st.vesting_account[key].unlock_timestamp)
    THEN Err(StillLocked, st)
    ELSE IF ~(authority = st.vesting_account[key].authority)
    THEN Err(VestingUnauthorized, st)
    ELSE token_transfer(st, "vesting_token_account", "emergency_account", amount)

\* pub fn emergency_withdraw
emergency_withdraw(st, authority, key, amount, now) ==
    IF ~(authority = st.vesting_account[key].authority)
    THEN Err(VestingUnauthorized, st)
    ELSE token_transfer(st, "vesting_token_account", "emergency_account", amount)

CreateVestingScheduleTx(st, beneficiary, authority, unlock_timestamp, total_amount, now) ==
    Then(CreateVestingScheduleAccounts(st, beneficiary),
         LAMBDA s : create_vesting_schedule(s, beneficiary, authority, unlock_timestamp,
                                            total_amount, now))

DepositTokensTx(st, key, amount) ==
    Then(DepositTokensAccounts(st, key), LAMBDA s : deposit_tokens(s, key, amount))

WithdrawTokensTx(st, beneficiary, key, amount, now) ==
    Then(WithdrawTokensAccounts(st, beneficiary, key),
         LAMBDA s : withdraw_tokens(s, beneficiary, key, amount, now))

EmergencyWithdrawTx(st, authority, key, amount, now) ==
    Then(EmergencyWithdrawAccounts(st, key),
         LAMBDA s : emergency_withdraw(s, authority, key, amount, now))

CreateVestingSchedule(authority, beneficiary, unlock_timestamp, total_amount) ==
    /\ vesting' = Commit(vesting, CreateVestingScheduleTx(vesting, beneficiary, authority,
                                                          unlock_timestamp, total_amount,
                                                          clock))
    /\ last' = [op |-> "create_vesting_schedule", signer |-> authority, key |-> beneficiary,
                err |-> CreateVestingScheduleTx(vesting, beneficiary, authority,
                                                unlock_timestamp, total_amount, clock).err]
    /\ UNCHANGED <<ledger, clock, merkle>>

DepositTokens(depositor, key, amount) ==
    /\ vesting' = Commit(vesting, DepositTokensTx(vesting, key, amount))
    /\ last' = [op |-> "deposit_tokens", signer |-> depositor, key |-> key,
                err |-> DepositTokensTx(vesting, key, amount).err]
    /\ UNCHANGED <<ledger, clock, merkle>>

WithdrawTokens(beneficiary, key, amount) ==
    /\ vesting' = Commit(vesting, WithdrawTokensTx(vesting, beneficiary, key, amount, clock))
    /\ last' = [op |-> "withdraw_tokens", signer |-> beneficiary, key |-> key,
                err |-> WithdrawTokensTx(vesting, beneficiary, key, amount, clock).err]
    /\ UNCHANGED <<ledger, clock, merkle>>

EmergencyWithdraw(authority, key, amount) ==
    /\ vesting' = Commit(vesting, EmergencyWithdrawTx(vesting, authority, key, amount, clock))
    /\ last' = [op |-> "emergency_withdraw", signer |-> authority, key |-> key,
                err |-> EmergencyWithdrawTx(vesting, authority, key, amount, clock).err]
    /\ UNCHANGED <<ledger, clock, merkle>>

VestingNext ==
    \/ \E authority \in Signers, beneficiary \in Beneficiaries,
          unlock_timestamp \in UnlockTimestamps, total_amount \in TotalAmounts :
           CreateVestingSchedule(authority, beneficiary, unlock_timestamp, total_amount)
    \/ \E depositor \in Signers, key \in Beneficiaries, amount \in TokenAmounts :
           DepositTokens(depositor, key, amount)
    \/ \E beneficiary \in Signers, key \in Beneficiaries, amount \in TokenAmounts :
           WithdrawTokens(beneficiary, key, amount)
    \/ \E authority \in Signers, key \in Beneficiaries, amount \in TokenAmounts :
           EmergencyWithdraw(authority, key, amount)
    \/ Tick

VestingSpec == Init /\ [][VestingNext]_vars

\* calculate_merkle_root called once on its own, with any leaf and any path
CalculateMerkleRoot(proof, leaf) ==
    /\ ~merkle.called
    /\ merkle' = [called |-> TRUE, proof |-> proof, leaf |-> leaf,
                  root |-> calculate_merkle_root(proof, leaf)]
    /\ UNCHANGED <<ledger, clock, last, vesting>>

MerkleNext ==
    \E proof \in HashPaths, leaf \in Hashes : CalculateMerkleRoot(proof, leaf)

MerkleSpec == Init /\ [][MerkleNext]_vars

\* ------------------------------------------------------ reading the state
Initialized == ValidatorSeed \in DOMAIN validator
Registry == validator[ValidatorSeed]
Active == Initialized /\ Registry.is_active

\* a step that is the transaction `op` (Tick is the only step that moves the clock)
Tx(op) == last'.op = op /\ clock' = clock
Failed == last'.err # "Ok"

\* the steps with one argument, whatever the other arguments
SubmitOf(operation_id, merkle_proof) ==
    \E authority \in Signers, block_hash \in BlockHashes, tx_signature \in TxSignatures,
       block_number \in BlockNumbers :
        SubmitConsensusProof(authority, operation_id, merkle_proof, block_hash,
                             tx_signature, block_number)
ConfirmOf(operation_id, ethereum_tx_hash) ==
    \E authority \in Signers :
        ConfirmEthereumSubmission(authority, operation_id, ethereum_tx_hash)
\* the records other than `key` are the same before and after the step
OthersKept(before, after, key) ==
    /\ DOMAIN after = (DOMAIN before) \cup {key}
    /\ \A k \in (DOMAIN before) \ {key} : after[k] = before[k]

\* ------------------------------------------------------------- claims

\* C1 as stated: a submit_consensus_proof for an operation id without a record,
\* made while the registry is active, succeeds; a submit for an operation id that
\* has a record fails with DuplicateRecord and leaves the records as they are.
C1_FirstSubmitSucceeds ==
    [][Tx("submit_consensus_proof") =>
          IF last'.key \in DOMAIN proof_records
          THEN last'.err = DuplicateRecord /\ proof_records' = proof_records
          ELSE Active => (last'.err = "Ok" /\ last'.key \in DOMAIN proof_records')]_vars

\* C1 amended: a submit for an operation id without a record, made while the registry
\* is active with a sibling path of at most MAX_PROOF_LEN elements, succeeds and
\* creates the record of that id only; every submit for an operation id that has a
\* record fails with DuplicateRecord and leaves every record as it is; the record
\* stored under an id is the record of that id.
C1_OneRecordPerOperation ==
    /\ [](\A o \in DOMAIN proof_records : proof_records[o].operation_id = o)
    /\ [][Tx("submit_consensus_proof") =>
            \A p \in MerkleProofs :
              SubmitOf(last'.key, p) =>
                /\ last'.key \in DOMAIN proof_records =>
                      (last'.err = DuplicateRecord /\ proof_records' = proof_records)
                /\ (last'.key \notin DOMAIN proof_records /\ Active
                      /\ Len(p) <= MAX_PROOF_LEN) =>
                      /\ last'.err = "Ok"
                      /\ last'.key \in DOMAIN proof_records'
                      /\ OthersKept(proof_records, proof_records', last'.key)]_vars

\* a second submit for an operation id was refused, its record still unconfirmed
C1_Witness ==
    /\ last.op = "submit_consensus_proof"
    /\ last.err = DuplicateRecord
    /\ last.key \in DOMAIN proof_records
    /\ ~proof_records[last.key].submitted_to_ethereum

\* C2: confirm_ethereum_submission on a record whose submitted_to_ethereum is false
\* succeeds, sets the flag and stores the given hash; on a record whose flag is true
\* it fails with AlreadySubmitted, whatever the hash and the caller, and leaves the
\* records (so the stored hash) as they are.
C2_ConfirmExactlyOnce ==
    [][(Tx("confirm_ethereum_submission") /\ last'.key \in DOMAIN proof_records) =>
          \A h \in EthereumTxHashes :
            ConfirmOf(last'.key, h) =>
              IF proof_records[last'.key].submitted_to_ethereum
              THEN last'.err = AlreadySubmitted /\ proof_records' = proof_records
              ELSE /\ last'.err = "Ok"
                   /\ proof_records'[last'.key].submitted_to_ethereum
                   /\ proof_records'[last'.key].ethereum_tx_hash = h]_vars

\* a confirmation with another hash than the stored one was refused
C2_Witness ==
    /\ last.op = "confirm_ethereum_submission"
    /\ last.err = AlreadySubmitted
    /\ proof_records[last.key].submitted_to_ethereum
    /\ \E o \in DOMAIN proof_records :
          o # last.key /\ proof_records[o].submitted_to_ethereum
                       /\ proof_records[o].ethereum_tx_hash # proof_records[last.key].ethereum_tx_hash

\* C3: a record that exists exists after every step; submitted_to_ethereum never
\* goes back to false; a record changes only in a confirm_ethereum_submission that
\* takes it from not submitted to submitted.
C3_LifecycleMonotone ==
    [][\A o \in DOMAIN proof_records :
          /\ o \in DOMAIN proof_records'
          /\ proof_records[o].submitted_to_ethereum => proof_records'[o].submitted_to_ethereum
          /\ proof_records'[o] # proof_records[o] =>
                /\ Tx("confirm_ethereum_submission") /\ last'.key = o
                /\ ~proof_records[o].submitted_to_ethereum
                /\ proof_records'[o].submitted_to_ethereum]_vars

\* a confirmed record has lived through a later submit for its operation id
C3_Witness ==
    /\ last.op = "submit_consensus_proof"
    /\ last.key \in DOMAIN proof_records
    /\ proof_records[last.key].submitted_to_ethereum

\* C4 as stated: with the registry inactive every submit_consensus_proof fails with
\* ValidatorNotActive and changes nothing.
C4_InactiveAlwaysNotActive ==
    [][(Tx("submit_consensus_proof") /\ Initialized /\ ~Registry.is_active) =>
          (last'.err = ValidatorNotActive /\ ledger' = ledger)]_vars

\* C4 amended: with the registry inactive every submit_consensus_proof fails and
\* changes nothing (no record, the counter and the event log as they were): with
\* DuplicateRecord when the operation id has a record, as the accounts are checked
\* before the handler runs, and with ValidatorNotActive when it has none.
C4_InactiveRefusesSubmit ==
    [][(Tx("submit_consensus_proof") /\ Initialized /\ ~Registry.is_active) =>
          /\ last'.err = IF last'.key \in DOMAIN proof_records
                         THEN DuplicateRecord ELSE ValidatorNotActive
          /\ proof_records' = proof_records
          /\ validator' = validator
          /\ events' = events]_vars

\* a submit was refused because the registry is inactive
C4_Witness ==
    /\ last.op = "submit_consensus_proof"
    /\ last.err = ValidatorNotActive
    /\ Initialized /\ ~Registry.is_active
    /\ last.key \notin DOMAIN proof_records

\* the part of C5 on the authority: update_validator by a signer other than the
\* stored authority fails with Unauthorized and changes nothing; the stored
\* authority's update_validator(None, None, Some(false)) succeeds and clears
\* is_active only.
C5_AuthorityStep ==
    (Tx("update_validator") /\ Initialized) =>
        /\ last'.signer # Registry.authority =>
              (last'.err = Unauthorized /\ ledger' = ledger)
        /\ (UpdateValidator(last'.signer, None, None, Some(FALSE))
              /\ last'.signer = Registry.authority) =>
              /\ last'.err = "Ok"
              /\ validator' = [validator EXCEPT ![ValidatorSeed].is_active = FALSE]

\* C5 as stated: the above, and while the registry is inactive every submit fails
\* with ValidatorNotActive.
C5_UnauthorizedAndDeactivation ==
    [][/\ C5_AuthorityStep
       /\ (Tx("submit_consensus_proof") /\ Initialized /\ ~Registry.is_active) =>
              last'.err = ValidatorNotActive]_vars

\* C5 amended: the above, and while the registry is inactive every submit fails:
\* with ValidatorNotActive for an operation id without a record, with
\* DuplicateRecord for one with a record.
C5_OnlyAuthorityUpdates ==
    [][/\ C5_AuthorityStep
       /\ (Tx("submit_consensus_proof") /\ Initialized /\ ~Registry.is_active) =>
              /\ Failed
              /\ last'.key \notin DOMAIN proof_records => last'.err = ValidatorNotActive]_vars

\* a signer other than the authority was refused on an inactive registry
C5_Witness ==
    /\ last.op = "update_validator"
    /\ last.err = Unauthorized
    /\ Initialized /\ ~Registry.is_active
    /\ last.signer # Registry.authority
    /\ Registry.total_proofs_submitted > 0

SubmittedRecord(operation_id, merkle_proof, block_hash, tx_signature, block_number, now) ==
    [operation_id |-> operation_id,
     merkle_root |-> calculate_merkle_root(merkle_proof, operation_id),
     merkle_proof |-> merkle_proof,
     solana_block_hash |-> block_hash,
     solana_tx_signature |-> tx_signature,
     solana_block_number |-> block_number,
     timestamp |-> now,
     submitted_to_ethereum |-> FALSE,
     ethereum_tx_hash |-> 0,
     validator |-> ValidatorKey]

\* the record a successful verify_vault_operation leaves, from the arguments of one call
VerifiedRecord(vault_id, operation_type, amount, user, now) ==
    [vault_id |-> vault_id,
     operation_type |-> operation_type,
     amount |-> amount,
     user |-> user,
     verification_hash |-> hashv(<<vault_id, OperationType[operation_type], amount, user, now>>),
     timestamp |-> now,
     validator |-> ValidatorKey]

C8_ConfirmMissingNotFound ==
    [][(Tx("confirm_ethereum_submission") /\ last'.key \notin DOMAIN proof_records) =>
          (last'.err = OperationNotFound /\ ledger' = ledger)]_vars

\* C8, the program's behaviour: confirm_ethereum_submission for an operation id
\* without a record fails with AccountNotInitialized (TrinityError::OperationNotFound
\* is never returned), creates no record and changes nothing; after it a submit for
\* the same id with a path that fits succeeds whenever the registry is active.
C8_ConfirmMissingFails ==
    /\ [][(Tx("confirm_ethereum_submission") /\ last'.key \notin DOMAIN proof_records) =>
             (last'.err = AccountNotInitialized /\ ledger' = ledger)]_vars
    /\ []((last.op = "confirm_ethereum_submission" /\ last.err = AccountNotInitialized) =>
             /\ last.key \notin DOMAIN proof_records
             /\ Active =>
                   \A p \in MerkleProofs, bh \in BlockHashes, sig \in TxSignatures,
                      bn \in BlockNumbers :
                       Len(p) <= MAX_PROOF_LEN =>
                           SubmitProofTx(ledger, last.key, p, bh, sig, bn, clock).err = "Ok")

\* a confirmation was refused for an operation id without a record, beside a record
\* of another id
C8_Witness ==
    /\ last.op = "confirm_ethereum_submission"
    /\ last.err = AccountNotInitialized
    /\ last.key \notin DOMAIN proof_records
    /\ proof_records # NoAccounts
    /\ Active

\* the registry a successful initialize leaves
InitializedRegistry(authority, bridge, eth, rpc) ==
    [authority |-> authority,
     ethereum_bridge_address |-> bridge,
     validator_ethereum_address |-> eth,
     arbitrum_rpc_url |-> rpc,
     total_proofs_submitted |-> 0,
     last_processed_operation |-> 0,
     is_active |-> TRUE,
     bump |-> ValidatorBump]

\* C9 as stated: initialize on a ledger without the registry succeeds and sets the
\* authority to the caller, active, both counters 0; initialize on a ledger with the
\* registry fails with AlreadyInitialized and changes nothing.
C9_FirstInitializeSucceeds ==
    [][Tx("initialize") =>
          IF Initialized
          THEN last'.err = AlreadyInitialized /\ ledger' = ledger
          ELSE /\ last'.err = "Ok"
               /\ validator'[ValidatorSeed].authority = last'.signer
               /\ validator'[ValidatorSeed].is_active
               /\ validator'[ValidatorSeed].total_proofs_submitted = 0
               /\ validator'[ValidatorSeed].last_processed_operation = 0]_vars

\* C9 amended: initialize on a ledger without the registry succeeds when its RPC
\* endpoint has at most MAX_RPC_LEN bytes, and then the registry holds the caller as
\* authority, the arguments, active, both counters 0, nothing else changing; with a
\* longer endpoint it fails and creates nothing; initialize on a ledger with the
\* registry fails with AlreadyInitialized, whoever calls, and changes nothing.
C9_InitializeOnce ==
    [][Tx("initialize") =>
          \A bridge \in BridgeAddresses, eth \in EthereumAddresses, rpc \in RpcUrls :
              Initialize(last'.signer, bridge, eth, rpc) =>
                  IF Initialized
                  THEN last'.err = AlreadyInitialized /\ ledger' = ledger
                  ELSE IF rpc.len <= MAX_RPC_LEN
                  THEN /\ last'.err = "Ok"
                       /\ ledger' = [ledger EXCEPT !.validator =
                              Put(NoAccounts, ValidatorSeed,
                                  InitializedRegistry(last'.signer, bridge, eth, rpc))]
                  ELSE last'.err = AccountDidNotSerialize /\ ledger' = ledger]_vars

\* another signer's initialize was refused on a deactivated registry that has counted
\* a proof
C9_Witness ==
    /\ last.op = "initialize"
    /\ last.err = AlreadyInitialized
    /\ Initialized
    /\ last.signer # Registry.authority
    /\ Registry.total_proofs_submitted > 0
    /\ ~Registry.is_active

\* every verification that exists is the same after the step
VerificationsKept ==
    \A v \in DOMAIN verifications :
        v \in DOMAIN verifications' /\ verifications'[v] = verifications[v]

\* C10 as stated: verify_vault_operation for a vault id without a verification
\* succeeds, for a vault id with one it fails with DuplicateRecord; a verification
\* that exists is never changed.
C10_FirstVerifySucceeds ==
    [][/\ VerificationsKept
       /\ Tx("verify_vault_operation") =>
             IF last'.key \in DOMAIN verifications
             THEN last'.err = DuplicateRecord
             ELSE last'.err = "Ok" /\ last'.key \in DOMAIN verifications']_vars

\* C10 amended: once the registry is initialized, verify_vault_operation for a vault
\* id without a verification succeeds, and for a vault id with one it fails with
\* DuplicateRecord whatever its other arguments and the time; before the registry is
\* initialized it fails and stores nothing; a verification that exists, its hash
\* included, is never changed.
C10_VerifyOncePerVault ==
    [][/\ VerificationsKept
       /\ Tx("verify_vault_operation") =>
             IF ~Initialized
             THEN last'.err = AccountNotInitialized /\ ledger' = ledger
             ELSE IF last'.key \in DOMAIN verifications
             THEN last'.err = DuplicateRecord
             ELSE last'.err = "Ok" /\ last'.key \in DOMAIN verifications']_vars

\* a later verify for a vault id was refused, the first one's record in place
C10_Witness ==
    /\ last.op = "verify_vault_operation"
    /\ last.err = DuplicateRecord
    /\ last.key \in DOMAIN verifications
    /\ verifications[last.key].timestamp < clock
    /\ verifications[last.key].verification_hash =
          hashv(<<last.key, OperationType[verifications[last.key].operation_type],
                  verifications[last.key].amount, verifications[last.key].user,
                  verifications[last.key].timestamp>>)

\* C11: verify_vault_operation needs only the registry to exist: without the
\* registry it fails and changes nothing; with the registry, active or not, it
\* succeeds for a vault id that has no verification; whatever its result it leaves
\* every proof record and the registry, the total-proofs counter included, as they
\* were.
C11_VerifyNeedsOnlyRegistry ==
    [][Tx("verify_vault_operation") =>
          /\ ~Initialized => (Failed /\ ledger' = ledger)
          /\ (Initialized /\ last'.key \notin DOMAIN verifications) =>
                (~Failed /\ last'.key \in DOMAIN verifications')
          /\ proof_records' = proof_records
          /\ validator' = validator]_vars

\* a verification was stored while the registry is inactive, a state in which a
\* submit for a free operation id is refused with ValidatorNotActive; the registry
\* has counted a proof
C11_Witness ==
    /\ last.op = "verify_vault_operation"
    /\ last.err = "Ok"
    /\ Initialized
    /\ ~Registry.is_active
    /\ Registry.total_proofs_submitted = 1
    /\ \E o \in OperationIds \ DOMAIN proof_records :
           SubmitProofTx(ledger, o, PathOfLen(MAX_PROOF_LEN), 5, 6, 7, clock).err
               = ValidatorNotActive

\* the fold of the specification: from the leaf, sibling by sibling from the first,
\* the smaller of running hash and sibling hashed first
RECURSIVE MerkleFold(_, _)
MerkleFold(running, path) ==
    IF path = <<>> THEN running
    ELSE MerkleFold(IF running < Head(path)
                    THEN hashv(<<running, Head(path)>>)
                    ELSE hashv(<<Head(path), running>>),
                    Tail(path))

\* C12: every successful submit_consensus_proof(O, path, ..) stores a record whose
\* Merkle root is the left-to-right fold over path from leaf O, smaller operand
\* first, with the path as given and submitted_to_ethereum false, and adds exactly 1
\* to total_proofs_submitted; after initialize and one submit with the empty path
\* the root is O, the flag is false and the counter is 1.
C12_SubmitStoresFold ==
    /\ [][(Tx("submit_consensus_proof") /\ ~Failed) =>
             /\ \A p \in ShortPaths :
                    SubmitOf(last'.key, p) =>
                        /\ proof_records'[last'.key].merkle_proof = p
                        /\ proof_records'[last'.key].merkle_root = MerkleFold(last'.key, p)
             /\ ~proof_records'[last'.key].submitted_to_ethereum
             /\ validator'[ValidatorSeed].total_proofs_submitted =
                    Registry.total_proofs_submitted + 1]_vars
    /\ []((/\ last.op = "submit_consensus_proof"
           /\ last.err = "Ok"
           /\ DOMAIN proof_records = {last.key}
           /\ proof_records[last.key].merkle_proof = <<>>) =>
             /\ proof_records[last.key].merkle_root = last.key
             /\ ~proof_records[last.key].submitted_to_ethereum
             /\ Registry.total_proofs_submitted = 1)

\* a record with the empty path whose root is its operation id, beside the record
\* just stored, whose path has two or more siblings, the first one below the leaf
C12_Witness ==
    /\ last.op = "submit_consensus_proof"
    /\ last.err = "Ok"
    /\ Len(proof_records[last.key].merkle_proof) >= 2
    /\ proof_records[last.key].merkle_proof[1] < last.key
    /\ Registry.total_proofs_submitted = 2
    /\ \E o \in DOMAIN proof_records :
           /\ proof_records[o].merkle_proof = <<>>
           /\ proof_records[o].merkle_root = o

\* C13: for every leaf L and every path of the one sibling S,
\* calculate_merkle_root([S], L) = calculate_merkle_root([L], S): the result does
\* not depend on which of the two is the running hash, L = S included.
C13_SingleSiblingSymmetric ==
    (merkle.called /\ Len(merkle.proof) = 1) =>
        merkle.root = calculate_merkle_root(<<merkle.leaf>>, merkle.proof[1])

\* a call whose one sibling is below the leaf, so that the sibling is hashed first
C13_Witness ==
    /\ merkle.called
    /\ Len(merkle.proof) = 1
    /\ merkle.proof[1] < merkle.leaf
    /\ merkle.root = hashv(<<merkle.proof[1], merkle.leaf>>)
    /\ merkle.root # hashv(<<merkle.leaf, merkle.proof[1]>>)

\* C14: for every leaf L, calculate_merkle_root of L and the empty path is L.
C14_EmptyPathIsLeaf ==
    (merkle.called /\ merkle.proof = <<>>) => merkle.root = merkle.leaf

\* a call with the empty path, for a leaf that hashing would change
C14_Witness ==
    /\ merkle.called
    /\ merkle.proof = <<>>
    /\ merkle.root = merkle.leaf
    /\ hashv(<<merkle.leaf>>) # merkle.leaf

\* the value of a field after an update: the argument when present, else the old one
Overwritten(old, arg) == IF arg.some THEN arg.val ELSE old

\* C15: a successful update_validator(new_arbitrum_rpc, new_ethereum_bridge,
\* is_active) overwrites exactly the registry fields whose argument is present and
\* leaves the absent ones; authority, validator_ethereum_address,
\* total_proofs_submitted, last_processed_operation and bump stay, no proof record
\* or vault verification is touched and no event is emitted; with the three
\* arguments absent the whole state is unchanged.
C15_UpdateFrame ==
    /\ [](Initialized =>
             \A new_rpc \in Option(RpcUrls), new_bridge \in Option(BridgeAddresses),
                is_active \in Option(BOOLEAN) :
                 UpdateValidatorTx(ledger, Registry.authority, new_rpc, new_bridge,
                                   is_active).err = "Ok" =>
                     /\ Commit(ledger, UpdateValidatorTx(ledger, Registry.authority,
                                                         new_rpc, new_bridge, is_active)) =
                            [ledger EXCEPT !.validator[ValidatorSeed] =
                                [@ EXCEPT
                                    !.arbitrum_rpc_url = Overwritten(@, new_rpc),
                                    !.ethereum_bridge_address = Overwritten(@, new_bridge),
                                    !.is_active = Overwritten(@, is_active)]]
                     /\ (~new_rpc.some /\ ~new_bridge.some /\ ~is_active.some) =>
                            Commit(ledger, UpdateValidatorTx(ledger, Registry.authority,
                                                             new_rpc, new_bridge,
                                                             is_active)) = ledger)
    /\ [][(Tx("update_validator") /\ ~Failed) =>
             /\ last'.signer = Registry.authority
             /\ DOMAIN validator' = {ValidatorSeed}
             /\ validator'[ValidatorSeed].authority = Registry.authority
             /\ validator'[ValidatorSeed].validator_ethereum_address =
                    Registry.validator_ethereum_address
             /\ validator'[ValidatorSeed].total_proofs_submitted =
                    Registry.total_proofs_submitted
             /\ validator'[ValidatorSeed].last_processed_operation =
                    Registry.last_processed_operation
             /\ validator'[ValidatorSeed].bump = Registry.bump
             /\ validator'[ValidatorSeed].arbitrum_rpc_url \in
                    {Registry.arbitrum_rpc_url} \cup RpcUrls
             /\ validator'[ValidatorSeed].ethereum_bridge_address \in
                    {Registry.ethereum_bridge_address} \cup BridgeAddresses
             /\ proof_records' = proof_records
             /\ verifications' = verifications
             /\ events' = events]_vars

\* an update went through on a deactivated registry that has a proof record, a
\* verification and two events, and left it deactivated, with the second bridge
\* address stored
C15_Witness ==
    /\ last.op = "update_validator"
    /\ last.err = "Ok"
    /\ ~Registry.is_active
    /\ Registry.ethereum_bridge_address = 2
    /\ Registry.total_proofs_submitted = 1
    /\ proof_records # NoAccounts
    /\ verifications # NoAccounts
    /\ Len(events) = 2

\* the registry without its counter of proofs
Configuration(v) == [v EXCEPT !.total_proofs_submitted = 0]

\* C16 as stated: once the registry exists it is never destroyed, and a step that
\* changes any of its fields is an update_validator signed by the stored authority.
C16_OnlyAuthorityMutates ==
    [][Initialized =>
          /\ Initialized'
          /\ validator' # validator =>
                (Tx("update_validator") /\ last'.signer = Registry.authority)]_vars

\* C16 amended: once the registry exists it is never destroyed; a step that changes
\* a field other than total_proofs_submitted is a successful update_validator signed
\* by the stored authority, and it leaves the authority; a step that changes
\* total_proofs_submitted is a successful submit_consensus_proof, by whichever
\* signer, and adds 1.
C16_RegistryOwnership ==
    [][Initialized =>
          /\ DOMAIN validator' = {ValidatorSeed}
          /\ validator'[ValidatorSeed].authority = Registry.authority
          /\ Configuration(validator'[ValidatorSeed]) # Configuration(Registry) =>
                (Tx("update_validator") /\ ~Failed /\ last'.signer = Registry.authority)
          /\ validator'[ValidatorSeed].total_proofs_submitted #
                 Registry.total_proofs_submitted =>
                (/\ Tx("submit_consensus_proof")
                 /\ ~Failed
                 /\ validator'[ValidatorSeed].total_proofs_submitted =
                        Registry.total_proofs_submitted + 1)]_vars

\* an update by a signer other than the authority was refused on a registry whose
\* counter two submits have raised
C16_Witness ==
    /\ last.op = "update_validator"
    /\ last.err = Unauthorized
    /\ last.signer # Registry.authority
    /\ Registry.total_proofs_submitted = 2

\* the schedule `key` exists and its unlock time is still ahead
Locked(key) ==
    /\ key \in DOMAIN vesting.vesting_account
    /\ clock < vesting.vesting_account[key].unlock_timestamp

\* C17 as stated: while the clock is before unlock_timestamp no step, by any signer,
\* takes tokens out of the vesting token account, and a withdraw_tokens of the
\* beneficiary fails with StillLocked.
C17_TimeLockHolds ==
    [][\A key \in Beneficiaries :
           Locked(key) =>
               /\ vesting'.vesting_token_account >= vesting.vesting_token_account
               /\ (Tx("withdraw_tokens") /\ last'.key = key /\ last'.signer = key) =>
                      last'.err = StillLocked]_vars

\* C17, the program's behaviour: while the clock is before unlock_timestamp every
\* withdraw_tokens fails and changes nothing, the beneficiary's with StillLocked;
\* the tokens that leave the vesting token account leave through emergency_withdraw
\* signed by the schedule's authority.
C17_OnlyEmergencyBypasses ==
    [][\A key \in Beneficiaries :
           Locked(key) =>
               /\ Tx("withdraw_tokens") =>
                      /\ Failed
                      /\ vesting' = vesting
                      /\ (last'.key = key /\ last'.signer = key) => last'.err = StillLocked
               /\ vesting'.vesting_token_account < vesting.vesting_token_account =>
                      /\ Tx("emergency_withdraw")
                      /\ last'.signer = vesting.vesting_account[key].authority]_vars

\* the authority's emergency_withdraw has emptied the vesting token account before
\* the unlock time, nothing withdrawn by the beneficiary
C17_Witness ==
    /\ last.op = "emergency_withdraw"
    /\ last.err = "Ok"
    /\ Locked(last.key)
    /\ vesting.vesting_account[last.key].withdrawn_amount = 0
    /\ vesting.emergency_account = 2
    /\ vesting.vesting_token_account = 0

\* the ProofGenerated events of the log, in the order of the log
IsProofGenerated(e) == e.event = "ProofGenerated"
ProofEvents == SelectSeq(events, IsProofGenerated)

\* the ProofGenerated event that carries the data of a stored record
EventOf(record) ==
    ProofGenerated(record.operation_id, record.merkle_root, record.solana_block_hash,
                   record.solana_block_number, record.timestamp)

\* C18: in every state total_proofs_submitted is the number of proof records and the
\* number of ProofGenerated events in the log (none of either before the registry
\* exists); the log has at most one ProofGenerated per operation id, each with the
\* operation id, root, block hash, block number and timestamp of that id's record;
\* the log only grows at its end, a successful submit appending the event of the
\* record it stored, so that the events are in the order the submissions succeeded.
C18_CounterRecordsEvents ==
    /\ [](/\ Len(ProofEvents) = Cardinality(DOMAIN proof_records)
          /\ IF Initialized
             THEN Registry.total_proofs_submitted = Cardinality(DOMAIN proof_records)
             ELSE proof_records = NoAccounts
          /\ \A i \in 1..Len(ProofEvents) :
                 /\ ProofEvents[i].operation_id \in DOMAIN proof_records
                 /\ ProofEvents[i] = EventOf(proof_records[ProofEvents[i].operation_id])
                 /\ \A j \in 1..Len(ProofEvents) :
                        /\ ProofEvents[i].operation_id = ProofEvents[j].operation_id => i = j
                        /\ i < j => ProofEvents[i].timestamp <= ProofEvents[j].timestamp)
    /\ [][/\ Len(events') >= Len(events)
          /\ SubSeq(events', 1, Len(events)) = events
          /\ (Tx("submit_consensus_proof") /\ ~Failed) =>
                 events' = Append(events, EventOf(proof_records'[last'.key]))
          /\ ~(Tx("submit_consensus_proof") /\ ~Failed) =>
                 \A i \in (Len(events) + 1)..Len(events') : ~IsProofGenerated(events'[i])]_vars

\* the log holds a ProofGenerated, an OperationVerified and a later ProofGenerated,
\* the counter is 2 and the second submit has just succeeded
C18_Witness ==
    /\ last.op = "submit_consensus_proof"
    /\ last.err = "Ok"
    /\ Len(events) = 3
    /\ IsProofGenerated(events[1])
    /\ events[2].event = "OperationVerified"
    /\ IsProofGenerated(events[3])
    /\ events[1].timestamp < events[3].timestamp
    /\ events[3].operation_id = last.key
    /\ Registry.total_proofs_submitted = 2

\* C19 as stated: in every state the Ethereum transaction hash of a proof record is
\* set (not all zero) exactly when submitted_to_ethereum is true; a successful
\* confirmation stores its argument and changes no other field but the flag, and a
\* confirmed record never changes.
C19_HashIffSubmitted ==
    /\ [](\A o \in DOMAIN proof_records :
             proof_records[o].ethereum_tx_hash # 0 <=> proof_records[o].submitted_to_ethereum)
    /\ [][/\ (Tx("confirm_ethereum_submission") /\ ~Failed) =>
                 \A h \in EthereumTxHashes :
                     ConfirmOf(last'.key, h) =>
                         proof_records'[last'.key] =
                             [proof_records[last'.key] EXCEPT
                                 !.submitted_to_ethereum = TRUE, !.ethereum_tx_hash = h]
          /\ \A o \in DOMAIN proof_records :
                 proof_records[o].submitted_to_ethereum =>
                     (o \in DOMAIN proof_records' /\ proof_records'[o] = proof_records[o])]_vars

\* C19 amended: in every state the Ethereum transaction hash of a proof record that
\* is not submitted_to_ethereum is all zero, so a hash is set only after
\* confirmation; a successful confirmation stores its argument, whatever it is (the
\* all-zero hash is not refused), and changes no other field but the flag; a
\* confirmed record never changes.
C19_HashOnlyAfterConfirmation ==
    /\ [](\A o \in DOMAIN proof_records :
             ~proof_records[o].submitted_to_ethereum => proof_records[o].ethereum_tx_hash = 0)
    /\ [][/\ (Tx("confirm_ethereum_submission") /\ ~Failed) =>
                 /\ ~proof_records[last'.key].submitted_to_ethereum
                 /\ \A h \in EthereumTxHashes :
                        ConfirmOf(last'.key, h) =>
                            proof_records'[last'.key] =
                                [proof_records[last'.key] EXCEPT
                                    !.submitted_to_ethereum = TRUE, !.ethereum_tx_hash = h]
          /\ \A o \in DOMAIN proof_records :
                 proof_records[o].submitted_to_ethereum =>
                     (o \in DOMAIN proof_records' /\ proof_records'[o] = proof_records[o])]_vars

\* a second confirmation was refused on a record that holds a hash, beside a record
\* confirmed with the all-zero hash
C19_Witness ==
    /\ last.op = "confirm_ethereum_submission"
    /\ last.err = AlreadySubmitted
    /\ proof_records[last.key].ethereum_tx_hash # 0
    /\ \E o \in DOMAIN proof_records :
           /\ proof_records[o].submitted_to_ethereum
           /\ proof_records[o].ethereum_tx_hash = 0
           /\ proof_records[o].timestamp > 0

\* the record of `o` exists and is not confirmed / is confirmed
Generated(o) == o \in DOMAIN proof_records /\ ~proof_records[o].submitted_to_ethereum
Confirmed(o) == o \in DOMAIN proof_records /\ proof_records[o].submitted_to_ethereum

\* C20: in every state, whatever the registry's active flag, a
\* confirm_ethereum_submission for a record that is not yet confirmed succeeds, for
\* any hash (the instruction reads neither the signer's key nor the registry); so,
\* with a relayer that keeps retrying the confirmation of each operation, every
\* proof record that is generated is eventually confirmed.
C20_GeneratedEventuallyConfirmed ==
    /\ [](\A o \in OperationIds :
             Generated(o) =>
                 \A h \in EthereumTxHashes :
                     /\ ConfirmSubmissionTx(ledger, o, h).err = "Ok"
                     /\ ConfirmSubmissionTx(ledger, o, h).st.proof_records[o]
                            .submitted_to_ethereum)
    /\ \A o \in OperationIds : Generated(o) ~> Confirmed(o)

\* a record generated earlier has just been confirmed while the registry is
\* deactivated
C20_Witness ==
    /\ last.op = "confirm_ethereum_submission"
    /\ last.err = "Ok"
    /\ Confirmed(last.key)
    /\ proof_records[last.key].timestamp < clock
    /\ ~Registry.is_active

\* C21: every stored proof record has a sibling path of at most MAX_PROOF_LEN
\* elements; a submit_consensus_proof with a longer path fails and leaves the proof
\* records, the counter and the event log as they were; a path of exactly
\* MAX_PROOF_LEN elements is not refused (the submit succeeds when the registry is
\* active and the operation id is free) and is stored element by element as given.
C21_PathBounded ==
    /\ [](\A o \in DOMAIN proof_records :
             Len(proof_records[o].merkle_proof) <= MAX_PROOF_LEN)
    /\ [][Tx("submit_consensus_proof") =>
             \A p \in MerkleProofs :
                 SubmitOf(last'.key, p) =>
                     /\ Len(p) > MAX_PROOF_LEN =>
                            /\ Failed
                            /\ proof_records' = proof_records
                            /\ validator' = validator
                            /\ events' = events
                     /\ (Len(p) = MAX_PROOF_LEN /\ Active
                            /\ last'.key \notin DOMAIN proof_records) =>
                            /\ ~Failed
                            /\ Len(proof_records'[last'.key].merkle_proof) = MAX_PROOF_LEN
                            /\ \A i \in 1..MAX_PROOF_LEN :
                                   proof_records'[last'.key].merkle_proof[i] = p[i]]_vars

\* a submit with a path one element too long has just failed for a free operation
\* id, beside the record of another id that holds a path of MAX_PROOF_LEN elements;
\* the counter and the log have the one proof
C21_Witness ==
    /\ last.op = "submit_consensus_proof"
    /\ last.err = AccountDidNotSerialize
    /\ last.key \notin DOMAIN proof_records
    /\ \E o \in DOMAIN proof_records :
           proof_records[o].merkle_proof = PathOfLen(MAX_PROOF_LEN)
    /\ Registry.total_proofs_submitted = 1
    /\ Len(ProofEvents) = 1

\* the tokens that have left the vesting token account: withdraw_tokens pays them to
\* the beneficiary's token account, emergency_withdraw to the emergency account
TokensOut == vesting.beneficiary_token_account + vesting.emergency_account

\* total_amount - withdrawn_amount of the schedule `key`
Available(key) ==
    vesting.vesting_account[key].total_amount - vesting.vesting_account[key].withdrawn_amount

\* the step is withdraw_tokens(amount) of the signer and the schedule in `last`
WithdrawOf(amount) ==
    /\ vesting' = Commit(vesting, WithdrawTokensTx(vesting, last'.signer, last'.key, amount,
                                                   clock))
    /\ last'.err = WithdrawTokensTx(vesting, last'.signer, last'.key, amount, clock).err

\* C22 as stated, the bound: in every reachable state of a vesting account
\* withdrawn_amount <= total_amount, and the tokens that have left the vesting token
\* account, under any interleaving of withdraw_tokens, deposit_tokens and
\* emergency_withdraw, never exceed total_amount.
C22_OutflowBounded ==
    \A key \in DOMAIN vesting.vesting_account :
        /\ vesting.vesting_account[key].withdrawn_amount
               <= vesting.vesting_account[key].total_amount
        /\ TokensOut <= vesting.vesting_account[key].total_amount

\* C22, the program's behaviour: withdrawn_amount <= total_amount in every state, and
\* withdrawn_amount is exactly what withdraw_tokens has paid to the beneficiary; a
\* withdraw_tokens of the beneficiary at or after the unlock time with an amount
\* above total_amount - withdrawn_amount fails with InsufficientBalance and changes
\* nothing; a successful withdraw_tokens moves exactly `amount` tokens and adds
\* exactly `amount` to withdrawn_amount; no other instruction changes
\* withdrawn_amount.
C22_WithdrawAccounting ==
    /\ [](\A key \in DOMAIN vesting.vesting_account :
             /\ vesting.vesting_account[key].withdrawn_amount
                    <= vesting.vesting_account[key].total_amount
             /\ vesting.vesting_account[key].withdrawn_amount
                    = vesting.beneficiary_token_account)
    /\ [][Tx("withdraw_tokens") =>
             \A amount \in TokenAmounts :
                 WithdrawOf(amount) =>
                     /\ (/\ last'.key \in DOMAIN vesting.vesting_account
                         /\ last'.signer = last'.key
                         /\ ~Locked(last'.key)
                         /\ amount > Available(last'.key)) =>
                            /\ last'.err = InsufficientBalance
                            /\ vesting' = vesting
                     /\ ~Failed =>
                            /\ amount <= Available(last'.key)
                            /\ vesting'.vesting_account[last'.key].withdrawn_amount
                                   = vesting.vesting_account[last'.key].withdrawn_amount
                                         + amount
                            /\ vesting'.vesting_token_account
                                   = vesting.vesting_token_account - amount
                            /\ vesting'.beneficiary_token_account
                                   = vesting.beneficiary_token_account + amount]_vars
    /\ [][\A key \in DOMAIN vesting.vesting_account :
              (key \in DOMAIN vesting'.vesting_account
                  /\ vesting'.vesting_account[key].withdrawn_amount
                         # vesting.vesting_account[key].withdrawn_amount) =>
                  Tx("withdraw_tokens") /\ ~Failed]_vars

\* more tokens have left the vesting token account than the schedule's
\* total_amount, part of them through a withdraw_tokens that has just succeeded
\* after an emergency_withdraw and a second deposit
C22_Witness ==
    /\ last.op = "withdraw_tokens"
    /\ last.err = "Ok"
    /\ last.key \in DOMAIN vesting.vesting_account
    /\ vesting.vesting_account[last.key].withdrawn_amount
           <= vesting.vesting_account[last.key].total_amount
    /\ vesting.emergency_account > 0
    /\ TokensOut > vesting.vesting_account[last.key].total_amount

====
